---- MODULE Spec2Model ----
(***************************************************************************)
(* Model of the uvue server (packages/@uvue/server/src/Server.ts): the      *)
(* plugin registry, the start/stop life cycle with its signal handlers,    *)
(* and the render middleware with its hooks.                               *)
(***************************************************************************)
EXTENDS Integers, Sequences, FiniteSets, TLC

\* ---------------------------------------------------------------- bounds

\* Longest plugin stack explored.
MaxPlugins == 2
\* Most adapter.start() calls explored.
MaxStarts == 2
\* Most adapter.stop() calls explored.
MaxStops == 2
\* Most SIGINT and most SIGTERM listeners the host application adds.
MaxOtherListeners == 1
\* Most rebuilds of the bundle while the development server runs.
MaxRebuilds == 1

\* ------------------------------------------------------------- constants

\* response.status of a fresh ResponseContext (Server.ts:172).
StatusOk == 200
\* response.status forced by the catch block (Server.ts:229).
StatusError == 500
\* The literal 'Server error' (Server.ts:228), as UTF-16 code units.
ServerError == <<83, 101, 114, 118, 101, 114, 32, 101, 114, 114, 111, 114>>

\* Bodies renderer.render() resolves with: the empty string and "hé".
RenderBodies == {<<>>, <<104, 233>>}
\* What renderer.renderSPAPage() resolves with (the SPA template).
SpaPage == <<115>>
\* What a hook assigns to response.body.
HookBody == <<120>>

\* Plugins: the static-files plugin (only install) and two plugins with hooks.
PluginIds == {"static", "pA", "pB"}

AsyncHooks == {"beforeRender", "beforeBuild", "rendered", "routeError"}

\* typeof plugin[name] === 'function'
HasMethod(p, name) ==
  CASE p = "static" -> name \in {"install"}
    [] p = "pA" -> name \in {"beforeStart", "beforeRender", "beforeBuild", "rendered",
                              "routeError", "afterResponse"}
    [] p = "pB" -> name \in {"beforeRender", "routeError", "afterResponse"}

\* Request URLs, as path segments: /about and /app/dashboard.
Urls == {<<"about">>, <<"app", "dashboard">>}
\* options.spaPaths: absent, or the glob /app/**.
SpaPathsOptions == {<<>>, << <<"app", "**">> >>}

VARIABLES
  started,      \* Server.started
  plugins,      \* Server.plugins
  renderer,     \* Server.renderer: 0 unset, otherwise the n-th Renderer created
  spaPaths,     \* options.spaPaths
  adapter,      \* the adapter: state, middlewares, start()/stop() calls
  signals,      \* process listeners for SIGINT and SIGTERM
  exited,       \* whether and how the process has ended
  startPc,      \* where the start() call in flight stands
  pc,           \* where the renderMiddleware call in flight stands
  idx,          \* position of the running for..of loop over plugins
  context,      \* IRequestContext of the request
  response,     \* IResponseContext of the request
  res,          \* the ServerResponse of the request
  err,          \* the error caught by the catch block
  trace,        \* what has been called for the request, for the properties
  addOrder      \* the plugins in the order of the addPlugin calls

vars == <<started, plugins, renderer, spaPaths, adapter, signals, exited, startPc, pc,
          idx, context, response, res, err, trace, addOrder>>

serverVars == <<started, renderer, adapter, signals, exited, startPc>>
requestVars == <<pc, idx, context, response, res, err, trace>>

\* ------------------------------------------------------- plugin registry

\* this.plugins.push(plugin), as unshift would do it.
Unshift(stack, plugin) == <<plugin>> \o stack

\* this.plugins.push(plugin)
Push(stack, plugin) == Append(stack, plugin)

\* The for..of loop of invoke/invokeAsync from position i: the position of the
\* next plugin that has the method, 0 when the loop runs to its end. idx holds
\* the position of the hook that is running, the loop going on in the same
\* turn as the hook returns.
NextWithMethod(i, name) ==
  IF \E k \in i..Len(plugins) : HasMethod(plugins[k], name)
  THEN CHOOSE k \in i..Len(plugins) :
         /\ HasMethod(plugins[k], name)
         /\ \A j \in i..Len(plugins) : HasMethod(plugins[j], name) => k <= j
  ELSE 0

\* invokeAsync without the await: every remaining hook is started in the turn
\* in which the loop reaches position i.
HooksStartedTogether(i, name) ==
  {j \in 1..Len(plugins) : i # 0 /\ j >= i /\ HasMethod(plugins[j], name)}

\* await plugin[name].bind(plugin)(...args): the hooks the loop of invokeAsync
\* starts as it reaches position i, the loop being suspended until the hook
\* has settled.
HooksStarted(i, name) == IF i = 0 THEN {} ELSE {i}

\* ------------------------------------------------------------- renderer

\* micromatch: one glob against one path, both as segments; * stands for one
\* segment and ** for any number of them.
RECURSIVE GlobMatch(_, _)
GlobMatch(path, glob) ==
  IF glob = <<>> THEN path = <<>>
  ELSE IF Head(glob) = "**"
       THEN GlobMatch(path, Tail(glob)) \/ (path # <<>> /\ GlobMatch(Tail(path), glob))
       ELSE /\ path # <<>>
            /\ Head(glob) \in {"*", Head(path)}
            /\ GlobMatch(Tail(path), Tail(glob))

\* spaPaths && spaPaths.length && micromatch.some(context.url, spaPaths)
IsSpaRoute(url, globs) ==
  /\ Len(globs) > 0
  /\ \E i \in 1..Len(globs) : GlobMatch(url, globs[i])

\* renderer.renderSSRPage(body, context): the body inside the SSR template.
SsrPage(body) == <<60>> \o body \o <<62>>

\* ------------------------------------------------------------ the request

\* The ServerResponse before anything is written.
FreshRes ==
  [finished |-> FALSE, statusCode |-> StatusOk, body |-> <<>>, contentLength |-> -1,
   by |-> "none"]

\* What is recorded about a request that has just arrived.
FreshTrace ==
  [ran |-> {}, calls |-> <<>>, sendCalls |-> 0, writes |-> 0, afterRuns |-> 0,
   threw |-> FALSE, errorArg |-> "none", checked |-> "no",
   brRedirected |-> FALSE, post |-> {}, byRouteError |-> FALSE,
   renderOn |-> 0, pageOn |-> 0, running |-> {}]

\* What a hook may do when it is called, besides throwing.
HookEffects(name) ==
  CASE name = "beforeRender" -> {"none", "end", "redirect", "flag", "statusCode"}
    [] name = "afterResponse" -> {"none", "statusCode"}
    [] OTHER -> {"none", "end", "statusCode", "status", "body"}

\* res.end() called by a hook or by the application (no effect once finished).
EndedBy(r, who, code) ==
  IF r.finished THEN r
  ELSE [finished |-> TRUE, statusCode |-> code, body |-> <<>>, contentLength |-> -1,
        by |-> who]

CtxEffect(e, ctx) ==
  CASE e \in {"redirect", "flag"} -> [ctx EXCEPT !.redirected = TRUE]
    [] e = "statusCode" -> [ctx EXCEPT !.statusCode = 404]
    [] OTHER -> ctx

RespEffect(e, resp) ==
  CASE e = "status" -> [resp EXCEPT !.status = 404]
    [] e = "body" -> [resp EXCEPT !.body = HookBody]
    [] OTHER -> resp

ResEffect(e, r, who) ==
  CASE e = "end" -> EndedBy(r, who, r.statusCode)
    [] e = "redirect" -> EndedBy(r, who, 302)
    [] OTHER -> r

\* statusCode || response.status, as a send that ignores context.statusCode.
StatusIgnoresContext(statusCode, status) == status

\* statusCode || response.status, an unset statusCode being 0.
StatusWritten(statusCode, status) == IF statusCode # 0 THEN statusCode ELSE status

\* res.setHeader throws once the headers are sent.
SendThrows(r) == r.finished

\* sendResponse(response, context) on a response whose headers are not sent.
SendResponse(resp, ctx) ==
  [finished |-> TRUE, statusCode |-> StatusWritten(ctx.statusCode, resp.status),
   body |-> resp.body, contentLength |-> Len(resp.body), by |-> "pipeline"]

\* A step of the request is recorded, and whatever runs after a beforeRender
\* hook has set context.redirected is recorded apart.
Note(t, name) ==
  [t EXCEPT !.ran = @ \cup {name},
            !.post = IF t.brRedirected THEN @ \cup {name} ELSE @]

\* The trace once sendResponse has been called; wrote: it reached res.end.
NoteSend(t, wrote) ==
  [Note(t, "send") EXCEPT !.sendCalls = @ + 1,
                          !.writes = IF wrote THEN @ + 1 ELSE @]

\* catch (err): the routeError hooks are invoked with the error.
EnterCatch(step, t) ==
  /\ err' = step
  /\ pc' = "routeError"
  /\ idx' = NextWithMethod(1, "routeError")
  /\ trace' = [t EXCEPT !.calls = <<>>, !.threw = TRUE, !.errorArg = step,
                        !.running = HooksStarted(idx', "routeError")]

\* The adapter hands a request to the render middleware.
Request(u) ==
  /\ exited = "no"
  /\ pc \in {"idle", "returned", "stopped", "rejected"}
  /\ adapter.state = "running"
  /\ \E i \in 1..Len(adapter.middlewares) : adapter.middlewares[i] = "render"
  /\ pc' = "beforeRender"
  /\ idx' = NextWithMethod(1, "beforeRender")
  /\ context' = [url |-> u, redirected |-> FALSE, statusCode |-> 0]
  /\ response' = [body |-> <<>>, status |-> StatusOk]
  /\ res' = FreshRes
  /\ err' = "none"
  /\ trace' = [FreshTrace EXCEPT !.running = HooksStarted(idx', "beforeRender")]
  /\ UNCHANGED <<plugins, addOrder, spaPaths, serverVars>>

\* invokeAsync: the next plugin that has the hook is called and returns.
InvokeAsyncCall(e) ==
  /\ pc \in AsyncHooks
  /\ idx # 0
  /\ e \in HookEffects(pc)
  /\ idx' = NextWithMethod(idx + 1, pc)
  /\ context' = CtxEffect(e, context)
  /\ response' = RespEffect(e, response)
  /\ res' = ResEffect(e, res, "hook")
  /\ trace' = [Note(trace, pc) EXCEPT
                 !.calls = Append(@, plugins[idx]),
                 !.running = (@ \ {idx}) \cup HooksStarted(idx', pc),
                 !.brRedirected = @ \/ (pc = "beforeRender" /\ e \in {"redirect", "flag"}),
                 !.byRouteError = @ \/ (pc = "routeError" /\ e \in {"end", "statusCode", "status"})]
  /\ UNCHANGED <<pc, err, plugins, addOrder, spaPaths, serverVars>>

\* invokeAsync: the next plugin that has the hook is called and throws or
\* rejects; inside the catch block the error leaves renderMiddleware.
InvokeAsyncThrow ==
  LET t == [Note(trace, pc) EXCEPT !.calls = Append(@, plugins[idx]),
                                   !.running = @ \ {idx}] IN
  /\ pc \in AsyncHooks
  /\ idx # 0
  /\ IF pc = "routeError"
     THEN /\ pc' = "rejected"
          /\ trace' = t
          /\ UNCHANGED <<idx, err>>
     ELSE EnterCatch(pc, t)
  /\ UNCHANGED <<context, response, res, plugins, addOrder, spaPaths, serverVars>>

\* this.renderer, read where a renderer method is called: the instance the
\* field holds at that moment (instances are numbered as they are created).
RendererRead(current) == current

\* if (!res.finished) after the beforeRender hooks, as a test that is left out.
ResponseOpenAlways(r) == TRUE

\* if (!res.finished) after the beforeRender hooks.
ResponseOpen(r) == ~r.finished

\* The route classification, as one that never takes the SPA branch.
BranchSsrOnly(url, globs) == "render"

\* The route classification: the renderer method the request goes to.
Branch(url, globs) == IF IsSpaRoute(url, globs) THEN "renderSPAPage" ELSE "render"

\* The beforeRender hooks are over: unless the response is finished the route
\* is classified and the renderer called.
BeforeRenderDone ==
  LET checked == IF res.finished THEN "finished" ELSE "open" IN
  /\ pc = "beforeRender"
  /\ idx = 0
  /\ IF ResponseOpen(res)
     THEN /\ pc' = Branch(context.url, spaPaths)
          /\ idx' = 0
          /\ trace' = [Note(trace, pc') EXCEPT !.checked = checked, !.calls = <<>>,
                                              !.renderOn = RendererRead(renderer)]
     ELSE /\ pc' = "afterResponse"
          /\ idx' = NextWithMethod(1, "afterResponse")
          /\ trace' = [trace EXCEPT !.checked = checked, !.calls = <<>>,
                                    !.afterRuns = @ + 1]
  /\ UNCHANGED <<context, response, res, err, plugins, addOrder, spaPaths, serverVars>>

\* response.body = await this.renderer.renderSPAPage()
RenderSPAPage ==
  /\ pc = "renderSPAPage"
  /\ \/ /\ response' = [response EXCEPT !.body = SpaPage]
        /\ pc' = "rendered"
        /\ idx' = NextWithMethod(1, "rendered")
        /\ trace' = [trace EXCEPT !.running = HooksStarted(idx', "rendered")]
        /\ UNCHANGED err
     \/ /\ EnterCatch("renderSPAPage", trace)
        /\ UNCHANGED response
  /\ UNCHANGED <<context, res, plugins, addOrder, spaPaths, serverVars>>

\* if (context.redirected) return, as a test that is left out.
RedirectIgnored(ctx) == FALSE

\* if (context.redirected) return, once render has resolved.
RedirectReturns(ctx) == ctx.redirected

\* response.body = await this.renderer.render(context); the application may
\* redirect (which ends the response) or set context.statusCode meanwhile.
Render ==
  /\ pc = "render"
  /\ \/ \E b \in RenderBodies, e \in {"none", "redirect", "statusCode"} :
          /\ response' = [response EXCEPT !.body = b]
          /\ context' = CtxEffect(e, context)
          /\ res' = ResEffect(e, res, "renderer")
          /\ pc' = IF RedirectReturns(context') THEN "stopped" ELSE "beforeBuild"
          /\ idx' = IF RedirectReturns(context') THEN 0
                    ELSE NextWithMethod(1, "beforeBuild")
          /\ trace' = [trace EXCEPT !.running = HooksStarted(idx', "beforeBuild")]
          /\ UNCHANGED err
     \/ /\ EnterCatch("render", trace)
        /\ UNCHANGED <<context, response, res>>
  /\ UNCHANGED <<plugins, addOrder, spaPaths, serverVars>>

\* The beforeBuild hooks are over: renderSSRPage is called.
BeforeBuildDone ==
  /\ pc = "beforeBuild"
  /\ idx = 0
  /\ pc' = "renderSSRPage"
  /\ trace' = [Note(trace, "renderSSRPage") EXCEPT !.calls = <<>>,
                                                   !.pageOn = RendererRead(renderer)]
  /\ UNCHANGED <<idx, context, response, res, err, plugins, addOrder, spaPaths,
                 serverVars>>

\* response.body = await this.renderer.renderSSRPage(response.body, context)
RenderSSRPage ==
  /\ pc = "renderSSRPage"
  /\ \/ /\ response' = [response EXCEPT !.body = SsrPage(response.body)]
        /\ pc' = "rendered"
        /\ idx' = NextWithMethod(1, "rendered")
        /\ trace' = [trace EXCEPT !.running = HooksStarted(idx', "rendered")]
        /\ UNCHANGED err
     \/ /\ EnterCatch("renderSSRPage", trace)
        /\ UNCHANGED response
  /\ UNCHANGED <<context, res, plugins, addOrder, spaPaths, serverVars>>

\* The rendered hooks are over: this.sendResponse(response, context), and the
\* afterResponse hooks start in the same turn.
RenderedDone ==
  /\ pc = "rendered"
  /\ idx = 0
  /\ IF SendThrows(res)
     THEN /\ EnterCatch("send", NoteSend(trace, FALSE))
          /\ UNCHANGED res
     ELSE /\ res' = SendResponse(response, context)
          /\ pc' = "afterResponse"
          /\ idx' = NextWithMethod(1, "afterResponse")
          /\ trace' = [NoteSend(trace, TRUE) EXCEPT !.calls = <<>>, !.afterRuns = @ + 1]
          /\ UNCHANGED err
  /\ UNCHANGED <<context, response, plugins, addOrder, spaPaths, serverVars>>

\* The fallback response, as one whose body is always 'Server error'.
FallbackServerErrorOnly(resp) == [body |-> ServerError, status |-> StatusError]

\* The fallback response, as one that leaves response.status as it is.
FallbackKeepsStatus(resp) ==
  [resp EXCEPT !.body = IF resp.body # <<>> THEN resp.body ELSE ServerError]

\* response.body = response.body || 'Server error'; response.status = 500
Fallback(resp) ==
  [body |-> IF resp.body # <<>> THEN resp.body ELSE ServerError, status |-> StatusError]

\* if (!res.finished) in the catch block, as a block that always sends.
FallbackAlways(r) == TRUE

\* if (!res.finished) in the catch block.
FallbackNeeded(r) == ~r.finished

\* The routeError hooks are over: the fallback response, then the
\* afterResponse hooks in the same turn.
RouteErrorDone ==
  /\ pc = "routeError"
  /\ idx = 0
  /\ IF FallbackNeeded(res)
     THEN /\ response' = Fallback(response)
          /\ IF SendThrows(res)
             THEN /\ pc' = "rejected"
                  /\ trace' = NoteSend(trace, FALSE)
                  /\ UNCHANGED <<res, idx>>
             ELSE /\ res' = SendResponse(Fallback(response), context)
                  /\ pc' = "afterResponse"
                  /\ idx' = NextWithMethod(1, "afterResponse")
                  /\ trace' = [NoteSend(trace, TRUE) EXCEPT !.calls = <<>>,
                                                            !.afterRuns = @ + 1]
     ELSE /\ pc' = "afterResponse"
          /\ idx' = NextWithMethod(1, "afterResponse")
          /\ trace' = [trace EXCEPT !.calls = <<>>, !.afterRuns = @ + 1]
          /\ UNCHANGED <<response, res>>
  /\ UNCHANGED <<context, err, plugins, addOrder, spaPaths, serverVars>>

\* invoke('afterResponse'): the next plugin that has the hook is called and returns.
InvokeCall(e) ==
  /\ pc = "afterResponse"
  /\ idx # 0
  /\ e \in HookEffects(pc)
  /\ idx' = NextWithMethod(idx + 1, pc)
  /\ context' = CtxEffect(e, context)
  /\ trace' = [Note(trace, pc) EXCEPT !.calls = Append(@, plugins[idx])]
  /\ UNCHANGED <<pc, response, res, err, plugins, addOrder, spaPaths, serverVars>>

\* invoke('afterResponse'): a hook throws, outside the try block.
InvokeThrow ==
  /\ pc = "afterResponse"
  /\ idx # 0
  /\ pc' = "rejected"
  /\ trace' = [Note(trace, pc) EXCEPT !.calls = Append(@, plugins[idx])]
  /\ UNCHANGED <<idx, context, response, res, err, plugins, addOrder, spaPaths,
                 serverVars>>

\* The afterResponse hooks are over: return {context, response}.
AfterResponseDone ==
  /\ pc = "afterResponse"
  /\ idx = 0
  /\ pc' = "returned"
  /\ UNCHANGED <<idx, context, response, res, err, trace, plugins, addOrder, spaPaths,
                 serverVars>>

\* addPlugin(plugin): the plugin joins the stack and its install method runs;
\* the static plugin's install calls server.use(middleware).
AddPlugin(p) ==
  /\ exited = "no"
  /\ Len(plugins) < MaxPlugins
  /\ pc # "afterResponse"
  /\ plugins' = Push(plugins, p)
  /\ addOrder' = Append(addOrder, p)
  /\ adapter' = IF HasMethod(p, "install")
                THEN [adapter EXCEPT !.middlewares = Append(@, p)]
                ELSE adapter
  /\ UNCHANGED <<started, renderer, signals, exited, startPc, spaPaths, requestVars>>

\* ------------------------------------------------------ start and stop

Signals == {"SIGINT", "SIGTERM"}

\* No listener on either signal.
NoListeners == [sig \in Signals |-> [own |-> 0, other |-> 0]]

\* process.once(signal, ...) for both signals, as a start() that adds none.
InstallNothing(sigs) == sigs

\* process.once(signal, ...) for both signals.
InstallHandlers(sigs) == [sig \in Signals |-> [sigs[sig] EXCEPT !.own = @ + 1]]

\* process.removeAllListeners for both signals, as a stop() that removes none.
RemoveNothing(sigs) == sigs

\* process.removeAllListeners('SIGINT'); process.removeAllListeners('SIGTERM')
RemoveAllListeners(sigs) == NoListeners

\* start() is called: the beforeStart hooks begin.
StartCall ==
  /\ exited = "no"
  /\ startPc.at = "none"
  /\ adapter.startCalls < MaxStarts
  /\ startPc' = [at |-> "beforeStart", idx |-> NextWithMethod(1, "beforeStart"),
                 last |-> "pending", wasIdle |-> adapter.state # "running"]
  /\ UNCHANGED <<started, plugins, addOrder, renderer, spaPaths, adapter, signals, exited,
                 requestVars>>

\* invokeAsync('beforeStart', this): the running hook returns, or it throws
\* and start() rejects.
BeforeStartHook ==
  /\ exited = "no"
  /\ startPc.at = "beforeStart"
  /\ startPc.idx # 0
  /\ \/ startPc' = [startPc EXCEPT !.idx = NextWithMethod(startPc.idx + 1, "beforeStart")]
     \/ startPc' = [startPc EXCEPT !.at = "none", !.idx = 0, !.last = "beforeStart"]
  /\ UNCHANGED <<started, plugins, addOrder, renderer, spaPaths, adapter, signals, exited,
                 requestVars>>

\* The beforeStart hooks are over: the renderer is created from the built
\* files (which throws when they cannot be read), then await readyPromise.
SetupRenderer ==
  /\ exited = "no"
  /\ startPc.at = "beforeStart"
  /\ startPc.idx = 0
  /\ \/ /\ renderer' = renderer + 1
        /\ startPc' = [startPc EXCEPT !.at = "ready"]
     \/ /\ startPc' = [startPc EXCEPT !.at = "none", !.idx = 0, !.last = "renderer"]
        /\ UNCHANGED renderer
  /\ UNCHANGED <<started, plugins, addOrder, spaPaths, adapter, signals, exited,
                 requestVars>>

\* this.use(renderMiddleware), then this.adapter.start() is called.
AdapterStart ==
  /\ exited = "no"
  /\ startPc.at = "ready"
  /\ adapter' = [adapter EXCEPT !.middlewares = Append(@, "render"),
                                !.startCalls = @ + 1]
  /\ startPc' = [startPc EXCEPT !.at = "adapterStart"]
  /\ UNCHANGED <<started, plugins, addOrder, renderer, spaPaths, signals, exited,
                 requestVars>>

\* adapter.start() resolves: started = true and the signal handlers are set.
AdapterStartResolves ==
  /\ exited = "no"
  /\ startPc.at = "adapterStart"
  /\ adapter' = [adapter EXCEPT !.state = "running", !.startsOk = @ + 1]
  /\ started' = TRUE
  /\ signals' = InstallHandlers(signals)
  /\ startPc' = [startPc EXCEPT !.at = "none", !.idx = 0, !.last = "ok"]
  /\ UNCHANGED <<plugins, addOrder, renderer, spaPaths, exited, requestVars>>

\* adapter.start() rejects: start() rejects with the adapter's error.
AdapterStartRejects ==
  /\ exited = "no"
  /\ startPc.at = "adapterStart"
  /\ startPc' = [startPc EXCEPT !.at = "none", !.idx = 0, !.last = "adapter"]
  /\ UNCHANGED <<started, plugins, addOrder, renderer, spaPaths, adapter, signals, exited,
                 requestVars>>

\* The adapter once stop() has been called n times on it, by callers `who`.
AdapterStopped(a, n, who) ==
  [a EXCEPT !.state = "stopped", !.stopCalls = @ + n,
            !.stopping = @ \o [i \in 1..n |-> who]]

\* stop() is called by the application.
Stop ==
  /\ exited = "no"
  /\ IF started
     THEN /\ adapter.stopCalls < MaxStops
          /\ signals' = RemoveAllListeners(signals)
          /\ adapter' = AdapterStopped(adapter, 1, "caller")
     ELSE UNCHANGED <<signals, adapter>>
  /\ UNCHANGED <<started, plugins, addOrder, renderer, spaPaths, exited, startPc,
                 requestVars>>

\* The adapter's stop() resolves once the connections in flight are drained:
\* no request is inside the render middleware.
Drained == pc \in {"idle", "returned", "stopped", "rejected"}

\* adapter.stop() resolves; after a signal, process.exit(0) follows.
AdapterStopResolves ==
  /\ exited = "no"
  /\ adapter.stopping # <<>>
  /\ Drained
  /\ adapter' = [adapter EXCEPT !.stopping = Tail(@)]
  /\ exited' = IF Head(adapter.stopping) = "signal" THEN "exit0" ELSE exited
  /\ UNCHANGED <<started, plugins, addOrder, renderer, spaPaths, signals, startPc,
                 requestVars>>

\* this.stop().then(() => process.exit(0)), as a handler that exits without
\* waiting for stop().
ExitAtOnce(x) == "exit0"

\* this.stop().then(() => process.exit(0)): the handler returns with stop()
\* pending, and the exit waits for its promise.
ExitAfterStop(x) == x

\* The process receives a signal: without a listener the process is killed;
\* otherwise each handler of this server, set with once and so removed as it
\* is called, runs this.stop().then(() => process.exit(0)).
Signal(sig) ==
  LET n == signals[sig].own
      once == [signals EXCEPT ![sig].own = 0] IN
  /\ exited = "no"
  /\ IF signals[sig].own + signals[sig].other = 0
     THEN /\ exited' = "killed"
          /\ UNCHANGED <<signals, adapter>>
     ELSE /\ adapter.stopCalls + n <= MaxStops
          /\ IF n > 0 /\ started
             THEN /\ signals' = RemoveAllListeners(once)
                  /\ adapter' = AdapterStopped(adapter, n, "signal")
                  /\ exited' = ExitAfterStop(exited)
             ELSE /\ signals' = once
                  /\ exited' = IF n > 0 THEN "exit0" ELSE exited
                  /\ UNCHANGED adapter
  /\ UNCHANGED <<started, plugins, addOrder, renderer, spaPaths, startPc, requestVars>>

\* The host application listens to a signal itself.
HostListens(sig) ==
  /\ exited = "no"
  /\ signals[sig].other < MaxOtherListeners
  /\ signals' = [signals EXCEPT ![sig].other = @ + 1]
  /\ UNCHANGED <<started, plugins, addOrder, renderer, spaPaths, adapter, exited, startPc,
                 requestVars>>

\* --------------------------------------------------------- specifications

\* No request has arrived.
NoRequest ==
  /\ pc = "idle"
  /\ idx = 0
  /\ context = [url |-> <<>>, redirected |-> FALSE, statusCode |-> 0]
  /\ response = [body |-> <<>>, status |-> StatusOk]
  /\ res = FreshRes
  /\ err = "none"
  /\ trace = FreshTrace

\* The server after construction.
Init ==
  /\ started = FALSE
  /\ plugins = <<>>
  /\ addOrder = <<>>
  /\ renderer = 0
  /\ spaPaths \in SpaPathsOptions
  /\ adapter = [state |-> "unstarted", middlewares |-> <<>>, startCalls |-> 0,
                startsOk |-> 0, stopCalls |-> 0, stopping |-> <<>>]
  /\ signals = NoListeners
  /\ exited = "no"
  /\ startPc = [at |-> "none", idx |-> 0, last |-> "none", wasIdle |-> TRUE]
  /\ NoRequest

\* Construction, plugins, start, stop and signals.
Next ==
  \/ \E p \in PluginIds : AddPlugin(p)
  \/ StartCall
  \/ BeforeStartHook
  \/ SetupRenderer
  \/ AdapterStart
  \/ AdapterStartResolves
  \/ AdapterStartRejects
  \/ Stop
  \/ AdapterStopResolves
  \/ \E sig \in Signals : Signal(sig)
  \/ \E sig \in Signals : HostListens(sig)

Spec == Init /\ [][Next]_vars

\* A server that start() has brought up, with no plugin yet.
InitStarted ==
  /\ started = TRUE
  /\ plugins = <<>>
  /\ addOrder = <<>>
  /\ renderer = 1
  /\ spaPaths \in SpaPathsOptions
  /\ adapter = [state |-> "running", middlewares |-> <<"render">>, startCalls |-> 1,
                startsOk |-> 1, stopCalls |-> 0, stopping |-> <<>>]
  /\ signals = InstallHandlers(NoListeners)
  /\ exited = "no"
  /\ startPc = [at |-> "none", idx |-> 0, last |-> "ok", wasIdle |-> TRUE]
  /\ NoRequest

\* The requests of a started server, and the plugins added meanwhile.
NextRequest ==
  \/ \E u \in Urls : Request(u)
  \/ \E e \in {"none", "end", "redirect", "flag", "statusCode", "status", "body"} :
       InvokeAsyncCall(e)
  \/ InvokeAsyncThrow
  \/ BeforeRenderDone
  \/ RenderSPAPage
  \/ Render
  \/ BeforeBuildDone
  \/ RenderSSRPage
  \/ RenderedDone
  \/ RouteErrorDone
  \/ \E e \in {"none", "statusCode"} : InvokeCall(e)
  \/ InvokeThrow
  \/ AfterResponseDone
  \/ \E p \in PluginIds : AddPlugin(p)

SpecRequest == InitStarted /\ [][NextRequest]_vars

\* Development mode (options.webpack): the bundle is rebuilt and the callback
\* given to setupDevMiddleware replaces this.renderer by a new instance.
RebuildCallback ==
  /\ exited = "no"
  /\ renderer <= MaxRebuilds
  /\ renderer' = renderer + 1
  /\ UNCHANGED <<started, plugins, addOrder, spaPaths, adapter, signals, exited, startPc,
                 requestVars>>

\* The requests of a started development server, and the rebuilds meanwhile.
NextDev ==
  \/ NextRequest
  \/ RebuildCallback

SpecDev == InitStarted /\ [][NextDev]_vars

\* A step of the request in flight: a hook or a renderer call returns or throws.
PipelineStep ==
  \/ \E e \in {"none", "end", "redirect", "flag", "statusCode", "status", "body"} :
       InvokeAsyncCall(e)
  \/ InvokeAsyncThrow
  \/ BeforeRenderDone
  \/ RenderSPAPage
  \/ Render
  \/ BeforeBuildDone
  \/ RenderSSRPage
  \/ RenderedDone
  \/ RouteErrorDone
  \/ \E e \in {"none", "statusCode"} : InvokeCall(e)
  \/ InvokeThrow
  \/ AfterResponseDone

\* SIGINT or SIGTERM is received while the server is running.
SignalWhileRunning(sig) ==
  /\ adapter.state = "running"
  /\ Signal(sig)

\* The requests of a started server, a signal received while it runs, and the
\* stop that follows.
NextSignal ==
  \/ NextRequest
  \/ \E sig \in Signals : SignalWhileRunning(sig)
  \/ AdapterStopResolves

\* Every hook and renderer call of a request comes back, and adapter.stop()
\* resolves once the connections are drained.
SpecSignal ==
  /\ InitStarted
  /\ [][NextSignal]_vars
  /\ WF_vars(PipelineStep)
  /\ WF_vars(AdapterStopResolves)

\* ------------------------------------------------------------- properties

Terminal == {"returned", "stopped", "rejected"}

\* The steps of the pipeline that come before the send.
PipelineSteps ==
  {"beforeRender", "render", "renderSPAPage", "beforeBuild", "renderSSRPage", "rendered"}

\* The plugins of a stack that have the method, in the order of the stack.
WithMethod(stack, name) == SelectSeq(stack, LAMBDA p : HasMethod(p, name))

ErrorAlwaysAnswered ==
  (pc \in Terminal /\ err \in PipelineSteps) => res.finished

\* C3: in every invocation the hooks called so far are those of the plugins
\* that have the method, in the order of the addPlugin calls, and the hook that
\* is running is the next one in that order.
HooksInRegistrationOrder ==
  pc \in AsyncHooks \cup {"afterResponse"} =>
    IF idx # 0
    THEN /\ idx <= Len(addOrder)
         /\ HasMethod(addOrder[idx], pc)
         /\ trace.calls = WithMethod(SubSeq(addOrder, 1, idx - 1), pc)
    ELSE \E n \in 0..Len(addOrder) : trace.calls = WithMethod(SubSeq(addOrder, 1, n), pc)

\* C3, its case: two different plugins have had the same hook called.
TwoPluginsCalled ==
  /\ pc = "afterResponse"
  /\ trace.calls = <<"pB", "pA">>

\* C4: a request whose URL matches an SPA glob never has render, renderSSRPage
\* or a beforeBuild hook called; any other request never has renderSPAPage called.
BranchesExclusive ==
  pc # "idle" =>
    IF IsSpaRoute(context.url, spaPaths)
    THEN trace.ran \cap {"render", "renderSSRPage", "beforeBuild"} = {}
    ELSE "renderSPAPage" \notin trace.ran

\* C4, its case: an SPA request has been rendered and sent.
SpaRequestServed ==
  /\ IsSpaRoute(context.url, spaPaths)
  /\ "renderSPAPage" \in trace.ran
  /\ pc = "returned"
  /\ res.by = "pipeline"

FallbackStatusIs500 ==
  (err # "none" /\ res.by = "pipeline" /\ ~trace.byRouteError) =>
    res.statusCode = StatusError

\* The fallback response has just been sent.
FallbackJustSent ==
  /\ pc = "afterResponse"
  /\ trace.calls = <<>>
  /\ err # "none"
  /\ res.by = "pipeline"

\* C6 as amended: the routeError hooks are invoked with the error that was
\* thrown, and the fallback response has status 500 unless context.statusCode
\* is set, by whatever set it, and then it has that status.
FallbackStatus ==
  /\ err # "none" => (trace.threw /\ trace.errorArg = err)
  /\ FallbackJustSent =>
       res.statusCode = IF context.statusCode # 0 THEN context.statusCode ELSE StatusError

\* C6, its case: a routeError hook has set response.status and the fallback
\* was sent with 500.
FallbackSentAfterRouteError ==
  /\ FallbackJustSent
  /\ "routeError" \in trace.ran
  /\ trace.byRouteError
  /\ context.statusCode = 0
  /\ res.statusCode = StatusError

\* C7: the server is not started once adapter.stop() has resolved, and
\* adapter.stop() is called at most once for each start() that succeeded.
StopReturnsToIdle ==
  /\ (adapter.state = "stopped" /\ adapter.stopping = <<>>) => ~started
  /\ adapter.stopCalls <= adapter.startsOk

\* C8: this server's signal handlers are installed only while it is running:
\* after an adapter.start() that resolved and before stop() has run.
HandlersOnlyWhileRunning ==
  \A sig \in Signals :
    signals[sig].own > 0 =>
      /\ started
      /\ adapter.state = "running"
      /\ signals[sig].own <= adapter.startsOk

\* C8, its case: the server was started, then stopped, and a later start()
\* failed in the adapter; no handler is installed.
StoppedThenFailedStart ==
  /\ adapter.stopCalls > 0
  /\ adapter.state = "stopped"
  /\ adapter.startCalls > adapter.startsOk
  /\ startPc.at = "none"
  /\ \A sig \in Signals : signals[sig].own = 0

\* C9: a request that is over with its response finalized has had the
\* afterResponse hooks invoked exactly once, and they are invoked only on a
\* finalized response.
AfterResponseOncePerResponse ==
  /\ (pc \in Terminal /\ res.finished) => trace.afterRuns = 1
  /\ pc = "afterResponse" => res.finished

\* C10: an afterResponse hook that throws does not make renderMiddleware reject.
AfterResponseFailureSwallowed ==
  pc = "rejected" => "afterResponse" \notin trace.ran

\* C11: when this.renderer is replaced while a request is in flight, the
\* request's render and renderSSRPage calls are made on one and the same
\* renderer instance.
OneRendererPerRequest ==
  (trace.renderOn # 0 /\ trace.pageOn # 0) => trace.renderOn = trace.pageOn

Utf8Bytes(unit) == IF unit < 128 THEN 1 ELSE IF unit < 2048 THEN 2 ELSE 3

\* Bytes of a body on the wire.
RECURSIVE ByteLength(_)
ByteLength(body) ==
  IF body = <<>> THEN 0 ELSE Utf8Bytes(Head(body)) + ByteLength(Tail(body))

\* C13: the Content-Length header sendResponse writes is the byte length of
\* the body it sends, multi-byte characters included.
ContentLengthIsByteLength ==
  res.by = "pipeline" => res.contentLength = ByteLength(res.body)

\* sendResponse has just written a response, in the try block or as the
\* fallback of the catch block.
ResponseJustSent ==
  /\ pc = "afterResponse"
  /\ trace.calls = <<>>
  /\ res.by = "pipeline"

\* C14: the status written is context.statusCode when it is set and
\* response.status otherwise, for the normal send and for the fallback send.
StatusFromContextElseResponse ==
  ResponseJustSent =>
    res.statusCode = IF context.statusCode # 0 THEN context.statusCode ELSE response.status

\* C14, its case: the application set context.statusCode while response.status
\* stayed 200, and the normal send wrote the former.
StatusCodeOverrides ==
  /\ ResponseJustSent
  /\ err = "none"
  /\ context.statusCode = 404
  /\ response.status = StatusOk
  /\ res.statusCode = 404

\* C15: after a start() that was called on a server that was not running and
\* that failed, in a beforeStart hook, in the renderer setup or in
\* adapter.start(), the server is idle: started is false, so that a later
\* stop() does nothing.
FailedStartLeavesIdle ==
  (/\ startPc.at = "none"
   /\ startPc.last \in {"beforeStart", "renderer", "adapter"}
   /\ startPc.wasIdle) => ~started

ThrowEndsInvocation ==
  /\ pc = "rejected"
  /\ "routeError" \in trace.ran
  /\ Len(WithMethod(plugins, "routeError")) = 2
  /\ Len(trace.calls) = 1

\* C17: in the SSR branch, when context.redirected is true as render returns,
\* the pipeline stops there: no beforeBuild hook, no renderSSRPage, no rendered
\* hook and no send.
RedirectAfterRenderStops ==
  (context.redirected /\ "render" \in trace.ran /\ pc # "render" /\ err # "render") =>
    /\ pc = "stopped"
    /\ trace.ran \cap {"beforeBuild", "renderSSRPage", "rendered", "send"} = {}
    /\ trace.sendCalls = 0

\* C17, its case: the application redirected during render, which ended the
\* response, and renderMiddleware returned.
RedirectedDuringRender ==
  /\ pc = "stopped"
  /\ context.redirected
  /\ res.by = "renderer"
  /\ res.statusCode = 302

RenderMiddlewares ==
  Cardinality({i \in 1..Len(adapter.middlewares) : adapter.middlewares[i] = "render"})

\* C19: whatever start(), stop() and addPlugin() calls were made, the adapter
\* holds the render middleware once at most: a second start() does not
\* register it a second time.
RenderMiddlewareOnce == RenderMiddlewares <= 1

\* C20: stop() removes this server's own signal handlers only: the listeners
\* the host application has on SIGINT and SIGTERM are never removed.
StopKeepsOtherListeners ==
  [][\A sig \in Signals : signals'[sig].other >= signals[sig].other]_vars

====
